---- MODULE Spec2Model ----
(***************************************************************************)
(* State-machine model of the DocumentBackCapture screen                   *)
(* (src/src/components/DocumentBackCapture.tsx).                           *)
(*                                                                         *)
(* One screen instance, its React state, the camera hook it uses and the   *)
(* asynchronous handleCapture invocations ("attempts") it has started.     *)
(* Every await of the source is a suspension point: the code between two   *)
(* awaits is one action.  The continuation of handleCapture after          *)
(* `await handleCheckQuality(image)` runs in the same microtask checkpoint *)
(* as the end of handleCheckQuality, before any user event, and is part    *)
(* of the same action.                                                     *)
(*                                                                         *)
(* useCamera and kycApiService are not part of the available sources.  The *)
(* hook is modelled from its documented contract (start acquires a stream  *)
(* or fails, stop idempotently releases it, captureFrame yields an image   *)
(* or nothing); the API is an environment that answers each call with any  *)
(* response, any thrown error, or never.                                   *)
(*                                                                         *)
(* The CountrySelection screen (src/src/components/CountrySelection.tsx)   *)
(* is modelled next to it: the list it builds from the metadata table      *)
(* (SpecCountryList) and its selector with the navigation timers           *)
(* (SpecCountry).  Spec leaves that screen idle.                           *)
(***************************************************************************)
EXTENDS Integers, Sequences, FiniteSets, TLC

\* ------------------------------------------------------------------ bounds
MaxAttempts == 2

Attempts == 1..MaxAttempts

\* rows of the metadata table, change events of the country selector
MaxRows == 3
MaxSelections == 2

\* --------------------------------------------------------------- JS values
Null == "<null>"
Undefined == "<undefined>"

ClearImage == "CLEAR IMAGE"
DefaultRejection == "Document is not clear. Please retake."
DefaultNetwork == "Network error. Please try again."
ValidationTips == <<"Ensure the document is fully visible.", "Avoid glare or shadows.">>
NetworkTips == <<"Check your internet connection.", "Try again later.">>

\* captureError === null
NoCaptureError == [type |-> "none", message |-> Null, tips |-> <<>>]

\* messages a processDocument response can carry (the field may be absent)
ResponseMessages == {ClearImage, "clear image", "Blurry image", "", Undefined}

\* values thrown by an API call: error?.response?.data?.message and error?.message
ThrownErrors ==
  { [respMsg |-> Undefined, errMsg |-> Undefined],
    [respMsg |-> Undefined, errMsg |-> "Network Error"],
    [respMsg |-> "", errMsg |-> ""],
    [respMsg |-> "", errMsg |-> "Request failed with status code 500"],
    [respMsg |-> "Invalid session", errMsg |-> "Request failed with status code 400"] }

\* JavaScript truthiness of a string-or-undefined value
Falsy(v) == v \in {Undefined, Null, ""}

\* a || b
OrElse(a, b) == IF Falsy(a) THEN b ELSE a

VARIABLES
  life,           \* "init" | "mounted" | "unmounted"
  hasOnError,     \* whether the optional onError prop was provided
  capturedImage,  \* 0 (null) or the attempt whose image is current
  isCapturing,
  isUploading,
  uploadError,
  isClearImage,
  captureError,
  stream,         \* camera hook: a media stream is held
  camPending,     \* camera hook: a start request has not settled yet
  isStreaming,
  isLoading,
  error,          \* camera hook: device error text or Null
  tasks,          \* per attempt: position of handleCapture and what it did
  liveUrls,       \* object URLs created and not revoked (by attempt)
  calls,          \* calls issued by the last step, in program order
  last            \* the last step: operation, attempt, input

\* CountrySelection (src/src/components/CountrySelection.tsx)
VARIABLES
  metadata,       \* the static table: a sequence of [country, country_code]
  cLife,          \* "init" | "mounted" | "unmounted"
  countries,      \* the list built on render: a sequence of <<code, name>>
  reported,       \* values passed to onSelectCountryCode, one per change event
  timers,         \* pending setTimeout callbacks, by change event, in due order
  navs            \* onNext invocations per change event

countryVars == <<metadata, cLife, countries, reported, timers, navs>>

vars == <<life, hasOnError, capturedImage, isCapturing, isUploading, uploadError,
          isClearImage, captureError, stream, camPending, isStreaming, isLoading,
          error, tasks, liveUrls, calls, last, countryVars>>


\* resp: the message of the processDocument response, "<none>" before it
\* arrives, "<threw>" when the call threw; ocr: outcome of processOCRDocument
NewTask == [pc |-> "new", resp |-> "<none>", ocr |-> "none",
            nCap |-> 0, nDoc |-> 0, nOcr |-> 0, nNext |-> 0, nErr |-> 0]

Call(f, a) == [fn |-> f, arg |-> a]

Fns(s) == { s[i].fn : i \in DOMAIN s }

\* position of the first call of f in s, 0 when absent
RECURSIVE FirstIdx(_, _, _)
FirstIdx(s, f, i) ==
  IF i > Len(s) THEN 0
  ELSE IF s[i].fn = f THEN i ELSE FirstIdx(s, f, i + 1)

Before(s, f, g) ==
  /\ FirstIdx(s, f, 1) > 0
  /\ FirstIdx(s, g, 1) > 0
  /\ FirstIdx(s, f, 1) < FirstIdx(s, g, 1)


\* ------------------------------------------------ the state as one record
St ==
  [life |-> life, capturedImage |-> capturedImage, isCapturing |-> isCapturing,
   isUploading |-> isUploading, uploadError |-> uploadError,
   isClearImage |-> isClearImage, captureError |-> captureError,
   stream |-> stream, camPending |-> camPending, isStreaming |-> isStreaming,
   isLoading |-> isLoading, error |-> error, tasks |-> tasks, liveUrls |-> liveUrls]

\* React drops a state update of a component that is no longer mounted
SetState(s, field, v) == IF s.life = "mounted" THEN [s EXCEPT ![field] = v] ELSE s

\* camera hook, start(facing): requests a stream; the request settles later
startCamera(s) == [s EXCEPT !.camPending = TRUE, !.isLoading = TRUE, !.error = Null]

\* camera hook, stop(): idempotently releases the stream, also one that a
\* pending request would still deliver
stopCamera(s) ==
  [s EXCEPT !.stream = FALSE, !.camPending = FALSE, !.isStreaming = FALSE, !.isLoading = FALSE]

\* the effect of one call made by attempt t (t = 0: no attempt)
Apply(s, c, t) ==
  CASE c.fn = "setCapturedImage" -> SetState(s, "capturedImage", c.arg)
    [] c.fn = "setIsCapturing"   -> SetState(s, "isCapturing", c.arg)
    [] c.fn = "setIsUploading"   -> SetState(s, "isUploading", c.arg)
    [] c.fn = "setUploadError"   -> SetState(s, "uploadError", c.arg)
    [] c.fn = "setIsClearImage"  -> SetState(s, "isClearImage", c.arg)
    [] c.fn = "setCaptureError"  -> SetState(s, "captureError", c.arg)
    [] c.fn = "startCamera"      -> startCamera(s)
    [] c.fn = "stopCamera"       -> stopCamera(s)
    [] c.fn = "revokeObjectURL"  -> [s EXCEPT !.liveUrls = @ \ {c.arg}]
    [] c.fn = "captureImage"     -> [s EXCEPT !.tasks[t].pc = "captureImage"]
    [] c.fn = "onCapture"        -> [s EXCEPT !.tasks[t].nCap = @ + 1]
    [] c.fn = "processDocument"  ->
         [s EXCEPT !.tasks[t].nDoc = @ + 1, !.tasks[t].pc = "processDocument"]
    [] c.fn = "processOCRDocument" ->
         [s EXCEPT !.tasks[t].nOcr = @ + 1, !.tasks[t].pc = "processOCRDocument",
                   !.tasks[t].ocr = "called"]
    [] c.fn = "onNext"           -> [s EXCEPT !.tasks[t].nNext = @ + 1]
    [] c.fn = "onError"          -> [s EXCEPT !.tasks[t].nErr = @ + 1]
    [] OTHER                     -> s

RECURSIVE Run(_, _, _)
Run(s, cs, t) == IF cs = <<>> THEN s ELSE Run(Apply(s, Head(cs), t), Tail(cs), t)

\* handleCapture has run to its end
Done(s, t) == [s EXCEPT !.tasks[t].pc = "done"]

Commit(s, cs, l) ==
  /\ life' = s.life
  /\ capturedImage' = s.capturedImage
  /\ isCapturing' = s.isCapturing
  /\ isUploading' = s.isUploading
  /\ uploadError' = s.uploadError
  /\ isClearImage' = s.isClearImage
  /\ captureError' = s.captureError
  /\ stream' = s.stream
  /\ camPending' = s.camPending
  /\ isStreaming' = s.isStreaming
  /\ isLoading' = s.isLoading
  /\ error' = s.error
  /\ tasks' = s.tasks
  /\ liveUrls' = s.liveUrls
  /\ calls' = cs
  /\ last' = l
  /\ UNCHANGED <<hasOnError, countryVars>>

Step(op, t, arg) == [op |-> op, t |-> t, arg |-> arg]

\* CountrySelection before it is rendered, over table m
CountryIdle(m) ==
  /\ metadata = m
  /\ cLife = "init"
  /\ countries = <<>>
  /\ reported = <<>>
  /\ timers = <<>>
  /\ navs = [k \in 1..MaxSelections |-> 0]

Init ==
  /\ CountryIdle(<<>>)
  /\ life = "init"
  /\ hasOnError \in BOOLEAN
  /\ capturedImage = 0
  /\ isCapturing = FALSE
  /\ isUploading = FALSE
  /\ uploadError = Null
  /\ isClearImage = FALSE
  /\ captureError = NoCaptureError
  /\ stream = FALSE
  /\ camPending = FALSE
  /\ isStreaming = FALSE
  /\ isLoading = FALSE
  /\ error = Null
  /\ tasks = [t \in Attempts |-> NewTask]
  /\ liveUrls = {}
  /\ calls = <<>>
  /\ last = [op |-> "init", t |-> 0, arg |-> Null]

\* ------------------------------------------------------------- rendering
\* `if (captureError) return <ErrorPage .../>`
ErrorPageShown == life = "mounted" /\ captureError # NoCaptureError

\* variant: `disabled` forgets isCapturing
CaptureEnabledNoBusyCheck ==
  /\ life = "mounted"
  /\ captureError = NoCaptureError
  /\ capturedImage = 0
  /\ ~(~isStreaming \/ isUploading)

\* the capture button is rendered and not disabled
CaptureEnabled ==
  /\ life = "mounted"
  /\ captureError = NoCaptureError
  /\ capturedImage = 0
  /\ ~(~isStreaming \/ isCapturing \/ isUploading)

\* ---------------------------------------------------------- code fragments
\* variant: the sentinel compared without regard to case
IsClearAnyCase(m) == m \in {ClearImage, "clear image"}

\* response.message === 'CLEAR IMAGE'
IsClear(m) == m = ClearImage

\* variant: the response message without the fallback
RejectionMessageNoDefault(m) == m

\* response.message || 'Document is not clear. Please retake.'
RejectionMessage(m) == OrElse(m, DefaultRejection)

\* variant: the thrown error's text without the final fallback
ThrownMessageNoDefault(e) == OrElse(e.respMsg, e.errMsg)

\* error?.response?.data?.message || error?.message || 'Network error. ...'
ThrownMessage(e) == OrElse(e.respMsg, OrElse(e.errMsg, DefaultNetwork))

\* handleCapture up to `await captureImage()`
CaptureCalls == <<Call("setIsCapturing", TRUE), Call("captureImage", Null)>>

\* variant: onCapture reported only after the upload has been started
FrameCallsUploadFirst(t) ==
  <<Call("setCapturedImage", t),
    Call("setIsUploading", TRUE), Call("setUploadError", Null),
    Call("setIsClearImage", FALSE), Call("setCaptureError", NoCaptureError),
    Call("processDocument", t), Call("onCapture", t)>>

\* handleCapture with a frame, then handleCheckQuality up to `await processDocument`
FrameCalls(t) ==
  <<Call("setCapturedImage", t), Call("onCapture", t),
    Call("setIsUploading", TRUE), Call("setUploadError", Null),
    Call("setIsClearImage", FALSE), Call("setCaptureError", NoCaptureError),
    Call("processDocument", t)>>

\* variant: no finally block
FinallyCallsNoFinally == <<Call("setIsCapturing", FALSE)>>

\* `finally { setIsUploading(false) }`, then handleCapture's last statement
FinallyCalls == <<Call("setIsUploading", FALSE), Call("setIsCapturing", FALSE)>>

\* the accepted branch up to `await processOCRDocument`
AcceptCalls(t) == <<Call("setIsClearImage", TRUE), Call("processOCRDocument", t)>>

\* the accepted branch after the OCR call has returned
AfterOcrCalls == <<Call("stopCamera", Null), Call("onNext", Null)>>

\* variant: the else branch restarts the camera by itself
RejectCallsRestart(m) ==
  <<Call("setUploadError", RejectionMessage(m)),
    Call("setCaptureError",
         [type |-> "validation", message |-> RejectionMessage(m), tips |-> ValidationTips])>>
  \o (IF hasOnError THEN <<Call("onError", RejectionMessage(m))>> ELSE <<>>)
  \o <<Call("startCamera", "environment")>>

\* the else branch
RejectCalls(m) ==
  <<Call("setUploadError", RejectionMessage(m)),
    Call("setCaptureError",
         [type |-> "validation", message |-> RejectionMessage(m), tips |-> ValidationTips])>>
  \o (IF hasOnError THEN <<Call("onError", RejectionMessage(m))>> ELSE <<>>)

\* variant: the catch block reports error.message instead of the computed text
CatchCallsRawMessage(e) ==
  <<Call("setUploadError", ThrownMessage(e)),
    Call("setCaptureError",
         [type |-> "network", message |-> ThrownMessage(e), tips |-> NetworkTips])>>
  \o (IF hasOnError THEN <<Call("onError", OrElse(e.errMsg, DefaultNetwork))>> ELSE <<>>)

\* the catch block
CatchCalls(e) ==
  <<Call("setUploadError", ThrownMessage(e)),
    Call("setCaptureError",
         [type |-> "network", message |-> ThrownMessage(e), tips |-> NetworkTips])>>
  \o (IF hasOnError THEN <<Call("onError", ThrownMessage(e))>> ELSE <<>>)

\* variant: handleRetake without URL.revokeObjectURL
RetakeCallsNoRevoke(img) ==
  <<Call("setCaptureError", NoCaptureError),
    Call("setCapturedImage", 0), Call("setUploadError", Null),
    Call("setIsClearImage", FALSE), Call("setCaptureError", NoCaptureError),
    Call("startCamera", "environment")>>

\* variant: handleRetake restarts the camera first and keeps the object URL
RetakeCallsCameraFirst(img) ==
  <<Call("setCaptureError", NoCaptureError), Call("startCamera", "environment"),
    Call("setCapturedImage", 0), Call("setUploadError", Null),
    Call("setIsClearImage", FALSE), Call("setCaptureError", NoCaptureError)>>

\* onRetry / onBack of the error page, then handleRetake
RetakeCalls(img) ==
  <<Call("setCaptureError", NoCaptureError)>>
  \o (IF img # 0 THEN <<Call("revokeObjectURL", img)>> ELSE <<>>)
  \o <<Call("setCapturedImage", 0), Call("setUploadError", Null),
       Call("setIsClearImage", FALSE), Call("setCaptureError", NoCaptureError),
       Call("startCamera", "environment")>>

\* ---------------------------------------------------------------- actions
\* useEffect: startCamera('environment')
Mount ==
  /\ life = "init"
  /\ LET cs == <<Call("startCamera", "environment")>>
     IN Commit(Run([St EXCEPT !.life = "mounted"], cs, 0), cs, Step("Mount", 0, Null))

\* variant: the effect returns no cleanup
UnmountNoCleanup ==
  /\ life = "mounted"
  /\ Commit([St EXCEPT !.life = "unmounted"], <<>>, Step("Unmount", 0, Null))

\* the effect's cleanup: stopCamera()
Unmount ==
  /\ life = "mounted"
  /\ LET cs == <<Call("stopCamera", Null)>>
     IN Commit([Run(St, cs, 0) EXCEPT !.life = "unmounted"], cs, Step("Unmount", 0, Null))

\* camera hook: the pending start request delivers a stream
CameraStarted ==
  /\ camPending
  /\ Commit([St EXCEPT !.camPending = FALSE, !.stream = TRUE,
                       !.isStreaming = TRUE, !.isLoading = FALSE],
            <<>>, Step("CameraStarted", 0, Null))

\* camera hook: the pending start request fails (permission, device)
CameraFailed ==
  /\ camPending
  /\ Commit([St EXCEPT !.camPending = FALSE, !.isLoading = FALSE,
                       !.error = "Camera access failed"],
            <<>>, Step("CameraFailed", 0, Null))

\* click on the capture button
handleCapture(t) ==
  /\ CaptureEnabled
  /\ tasks[t].pc = "new"
  /\ \A u \in Attempts : u < t => tasks[u].pc # "new"
  /\ Commit(Run(St, CaptureCalls, t), CaptureCalls, Step("handleCapture", t, Null))

\* captureImage() resolves with a frame: only while a stream is held
CaptureImageFrame(t) ==
  /\ tasks[t].pc = "captureImage"
  /\ stream
  /\ Commit(Run([St EXCEPT !.liveUrls = @ \cup {t}], FrameCalls(t), t),
            FrameCalls(t), Step("CaptureImageFrame", t, Null))

\* captureImage() resolves with null
CaptureImageNull(t) ==
  /\ tasks[t].pc = "captureImage"
  /\ LET cs == <<Call("setIsCapturing", FALSE)>>
     IN Commit(Done(Run(St, cs, t), t), cs, Step("CaptureImageNull", t, Null))

\* processDocument resolves with a response carrying message m
DocResponse(t, m) ==
  /\ tasks[t].pc = "processDocument"
  /\ LET s0 == [St EXCEPT !.tasks[t].resp = m]
     IN IF IsClear(m)
        THEN Commit(Run(s0, AcceptCalls(t), t), AcceptCalls(t), Step("DocResponse", t, m))
        ELSE LET cs == RejectCalls(m) \o FinallyCalls
             IN Commit(Done(Run(s0, cs, t), t), cs, Step("DocResponse", t, m))

\* processDocument throws e
DocThrows(t, e) ==
  /\ tasks[t].pc = "processDocument"
  /\ LET cs == CatchCalls(e) \o FinallyCalls
     IN Commit(Done(Run([St EXCEPT !.tasks[t].resp = "<threw>"], cs, t), t),
               cs, Step("DocThrows", t, e))

\* processOCRDocument resolves
OcrResolves(t) ==
  /\ tasks[t].pc = "processOCRDocument"
  /\ LET cs == AfterOcrCalls \o FinallyCalls
     IN Commit(Done(Run([St EXCEPT !.tasks[t].ocr = "ok"], cs, t), t),
               cs, Step("OcrResolves", t, Null))

\* processOCRDocument throws e
OcrThrows(t, e) ==
  /\ tasks[t].pc = "processOCRDocument"
  /\ LET cs == CatchCalls(e) \o FinallyCalls
     IN Commit(Done(Run([St EXCEPT !.tasks[t].ocr = "threw"], cs, t), t),
               cs, Step("OcrThrows", t, e))

\* click on Retry or Back of the error page
Retake(via) ==
  /\ ErrorPageShown
  /\ Commit(Run(St, RetakeCalls(capturedImage), 0), RetakeCalls(capturedImage),
            Step("Retake", 0, via))

Next ==
  \/ Mount
  \/ Unmount
  \/ CameraStarted
  \/ CameraFailed
  \/ \E t \in Attempts : handleCapture(t)
  \/ \E t \in Attempts : CaptureImageFrame(t)
  \/ \E t \in Attempts : CaptureImageNull(t)
  \/ \E t \in Attempts, m \in ResponseMessages : DocResponse(t, m)
  \/ \E t \in Attempts, e \in ThrownErrors : DocThrows(t, e)
  \/ \E t \in Attempts : OcrResolves(t)
  \/ \E t \in Attempts, e \in ThrownErrors : OcrThrows(t, e)
  \/ \E via \in {"onRetry", "onBack"} : Retake(via)

Spec == Init /\ [][Next]_vars

TypeOK ==
  /\ life \in {"init", "mounted", "unmounted"}
  /\ capturedImage \in 0..MaxAttempts
  /\ isCapturing \in BOOLEAN /\ isUploading \in BOOLEAN /\ isClearImage \in BOOLEAN
  /\ stream \in BOOLEAN /\ camPending \in BOOLEAN
  /\ isStreaming \in BOOLEAN /\ isLoading \in BOOLEAN
  /\ liveUrls \subseteq Attempts

\* ======================================================= CountrySelection
screenVars == <<life, hasOnError, capturedImage, isCapturing, isUploading, uploadError,
                isClearImage, captureError, stream, camPending, isStreaming, isLoading,
                error, tasks, liveUrls>>

\* setTimeout(() => onNext(), 100)
Delay == 100

CountryCodes == {"AT", "BR"}
CountryNames == {"austria", "Brazil", "Chile"}

\* the metadata tables considered: any rows, duplicates of a code included
Rows == [country : CountryNames, country_code : CountryCodes]
Tables == UNION { [1..n -> Rows] : n \in 0..MaxRows }

\* position of a name in the locale's collation order (case-insensitive) ...
LocaleRank(n) == CASE n = "austria" -> 1 [] n = "Brazil" -> 2 [] n = "Chile" -> 3
\* ... and in UTF-16 code unit order (upper case before lower case)
CodeUnitRank(n) == CASE n = "Brazil" -> 1 [] n = "Chile" -> 2 [] n = "austria" -> 3

Sign(x) == IF x < 0 THEN -1 ELSE IF x > 0 THEN 1 ELSE 0

\* variant: names compared by code units (a < b)
codeUnitCompare(a, b) == Sign(CodeUnitRank(a) - CodeUnitRank(b))

\* a.localeCompare(b)
localeCompare(a, b) == Sign(LocaleRank(a) - LocaleRank(b))

\* Map.prototype.set on a Map kept as its entries in insertion order: a known
\* key keeps its position and takes the new value
MapSet(m, k, v) ==
  IF \E i \in DOMAIN m : m[i][1] = k
  THEN [i \in DOMAIN m |-> IF m[i][1] = k THEN <<k, v>> ELSE m[i]]
  ELSE Append(m, <<k, v>>)

\* new Map(metadata.map(item => [item.country_code, item.country]))
RECURSIVE NewMapFrom(_, _)
NewMapFrom(m, rows) ==
  IF rows = <<>> THEN m
  ELSE NewMapFrom(MapSet(m, Head(rows).country_code, Head(rows).country), Tail(rows))

NewMap(rows) == NewMapFrom(<<>>, rows)

\* Array.prototype.sort with comparator (a, b) => a[1].localeCompare(b[1]):
\* stable, x goes behind every element that does not compare greater
SortInsert(s, x) ==
  LET k == Cardinality({i \in DOMAIN s : localeCompare(s[i][2], x[2]) <= 0})
  IN SubSeq(s, 1, k) \o <<x>> \o SubSeq(s, k + 1, Len(s))

RECURSIVE SortFrom(_, _)
SortFrom(s, rest) ==
  IF rest = <<>> THEN s ELSE SortFrom(SortInsert(s, Head(rest)), Tail(rest))

\* const countries = Array.from(new Map(...).entries()).sort(...)
BuildCountries(rows) == SortFrom(<<>>, NewMap(rows))

\* variant: navigation scheduled only when no timer is pending
ChangeCallsDebounced(value) ==
  <<Call("onSelectCountryCode", value)>>
  \o (IF ~Falsy(value) /\ timers = <<>> THEN <<Call("setTimeout", Delay)>> ELSE <<>>)

\* handleChange
ChangeCalls(value) ==
  <<Call("onSelectCountryCode", value)>>
  \o (IF ~Falsy(value) THEN <<Call("setTimeout", Delay)>> ELSE <<>>)

\* the effect of one call made by change event k
ApplyCountry(s, c, k) ==
  CASE c.fn = "onSelectCountryCode" -> [s EXCEPT !.reported = Append(@, c.arg)]
    [] c.fn = "setTimeout"          -> [s EXCEPT !.timers = Append(@, k)]
    [] c.fn = "onNext"              -> [s EXCEPT !.navs[k] = @ + 1]
    [] OTHER                        -> s

RECURSIVE RunCountry(_, _, _)
RunCountry(s, cs, k) ==
  IF cs = <<>> THEN s ELSE RunCountry(ApplyCountry(s, Head(cs), k), Tail(cs), k)

StCountry == [reported |-> reported, timers |-> timers, navs |-> navs]

CommitCountry(s, cs, l) ==
  /\ reported' = s.reported
  /\ timers' = s.timers
  /\ navs' = s.navs
  /\ calls' = cs
  /\ last' = l
  /\ UNCHANGED <<screenVars, metadata>>

\* the component renders: the list is built from the table
RenderCountries ==
  /\ cLife = "init"
  /\ cLife' = "mounted"
  /\ countries' = BuildCountries(metadata)
  /\ CommitCountry(StCountry, <<>>, Step("RenderCountries", 0, Null))

\* the wizard leaves the screen; the component clears no timer
CountryUnmount ==
  /\ cLife = "mounted"
  /\ cLife' = "unmounted"
  /\ UNCHANGED countries
  /\ CommitCountry(StCountry, <<>>, Step("CountryUnmount", 0, Null))

\* change event of the selector with the value of one of its options
handleChange(value) ==
  /\ cLife = "mounted"
  /\ Len(reported) < MaxSelections
  /\ value = "" \/ \E i \in DOMAIN countries : countries[i][1] = value
  /\ LET k == Len(reported) + 1
     IN CommitCountry(RunCountry(StCountry, ChangeCalls(value), k), ChangeCalls(value),
                      Step("handleChange", k, value))
  /\ UNCHANGED <<cLife, countries>>

\* the oldest pending timer fires: () => onNext()
TimerFires ==
  /\ timers # <<>>
  /\ LET cs == <<Call("onNext", Null)>>
     IN CommitCountry(RunCountry([StCountry EXCEPT !.timers = Tail(@)], cs, Head(timers)),
                      cs, Step("TimerFires", Head(timers), Null))
  /\ UNCHANGED <<cLife, countries>>

\* tables of two countries with different names: the options of the selector
SelectorTables ==
  { m \in [1..2 -> Rows] :
      m[1].country_code # m[2].country_code /\ m[1].country # m[2].country }

InitCountry(tables) ==
  /\ \E m \in tables : CountryIdle(m)
  /\ life = "init"
  /\ hasOnError = FALSE
  /\ capturedImage = 0
  /\ isCapturing = FALSE
  /\ isUploading = FALSE
  /\ uploadError = Null
  /\ isClearImage = FALSE
  /\ captureError = NoCaptureError
  /\ stream = FALSE
  /\ camPending = FALSE
  /\ isStreaming = FALSE
  /\ isLoading = FALSE
  /\ error = Null
  /\ tasks = [t \in Attempts |-> NewTask]
  /\ liveUrls = {}
  /\ calls = <<>>
  /\ last = [op |-> "init", t |-> 0, arg |-> Null]

NextCountry ==
  \/ RenderCountries
  \/ CountryUnmount
  \/ \E value \in CountryCodes \cup {""} : handleChange(value)
  \/ TimerFires

\* the selector and its timers; a due timer callback is run by the event loop
SpecCountry == InitCountry(SelectorTables) /\ [][NextCountry]_vars /\ WF_vars(TimerFires)

\* the list construction alone, over every table
SpecCountryList == InitCountry(Tables) /\ [][RenderCountries]_vars

\* ------------------------------------------------------------- properties
InFlight(t) == tasks[t].pc \in {"captureImage", "processDocument", "processOCRDocument"}

Rejected(t) == tasks[t].resp \notin {"<none>", "<threw>", ClearImage}

\* C1: every attempt whose processDocument response was exactly "CLEAR IMAGE"
\* and whose handler has run to its end has invoked onNext exactly once, with
\* stopCamera called before onNext.
C1_ClearImageAdvancesOnce ==
  /\ \A t \in Attempts :
       (tasks[t].resp = ClearImage /\ tasks[t].pc = "done") => tasks[t].nNext = 1
  /\ "onNext" \in Fns(calls) => Before(calls, "stopCamera", "onNext")

\* C2: once processDocument has signalled acceptance the OCR call does not block
\* navigation: an attempt whose OCR call failed has still invoked onNext, and
\* the failure is not shown as an error state nor reported through onError.
C2_OcrFailureInvisible ==
  \A t \in Attempts :
    tasks[t].ocr = "threw" =>
      /\ tasks[t].nNext = 1
      /\ tasks[t].nErr = 0
      /\ (last.op = "OcrThrows" /\ last.t = t) => captureError = NoCaptureError

\* C3: a processDocument response whose message is not exactly "CLEAR IMAGE"
\* leaves the mounted screen in an error state of category validation whose
\* message is the response message verbatim, or the default text when the
\* message is empty or absent; such an attempt never invokes onNext.
C3_RejectionShowsValidationError ==
  /\ \A t \in Attempts : Rejected(t) => tasks[t].nNext = 0
  /\ (last.op = "DocResponse" /\ last.arg # ClearImage /\ life = "mounted") =>
       /\ captureError.type = "validation"
       /\ captureError.message =
            (IF last.arg \in {"", Undefined} THEN DefaultRejection ELSE last.arg)

C3_Witness ==
  /\ last.op = "DocResponse" /\ last.arg = "Blurry image" /\ life = "mounted"
  /\ captureError.message = "Blurry image"

\* C4: a thrown failure of processDocument or processOCRDocument leaves the
\* mounted screen in an error state of category network with the connectivity
\* tips; when the thrown value carries no message at all the text shown is
\* exactly 'Network error. Please try again.'.
C4_ThrownShowsNetworkError ==
  (last.op \in {"DocThrows", "OcrThrows"} /\ life = "mounted") =>
    /\ captureError.type = "network"
    /\ captureError.tips = <<"Check your internet connection.", "Try again later.">>
    /\ (last.arg.respMsg \in {Undefined, ""} /\ last.arg.errMsg \in {Undefined, ""}) =>
         captureError.message = "Network error. Please try again."

C4_Witness ==
  /\ last.op = "DocThrows" /\ life = "mounted"
  /\ last.arg.respMsg = Undefined /\ last.arg.errMsg = Undefined
  /\ captureError.message = DefaultNetwork

\* C5: at most one capture-and-upload cycle is outstanding at any time, and the
\* capture action is not available while one is outstanding.
C5_OneCycleInFlight ==
  /\ Cardinality({t \in Attempts : InFlight(t)}) <= 1
  /\ CaptureEnabled => \A t \in Attempts : ~InFlight(t)

C5_Witness ==
  \E t, u \in Attempts : tasks[t].pc = "done" /\ tasks[t].nDoc = 1 /\ InFlight(u)

\* C6: the step that puts up the error page of a rejection or a thrown error,
\* and every step taken while that page is shown, invokes no onNext, does not
\* restart the camera and starts no capture or upload, except the user's
\* retake; capture is not available while the page is shown.
C6_HaltedUntilRetake ==
  [][(ErrorPageShown \/ ErrorPageShown') =>
       /\ ~(ErrorPageShown /\ CaptureEnabled)
       /\ \/ last'.op = "Retake"
          \/ Fns(calls') \cap {"onNext", "startCamera", "captureImage",
                               "processDocument", "processOCRDocument"} = {}]_vars

C6_Witness ==
  /\ CaptureEnabled
  /\ \E t \in Attempts : tasks[t].pc = "done" /\ (Rejected(t) \/ tasks[t].resp = "<threw>")

\* C7: a retake leaves no capture error, no upload error and no current image,
\* has revoked the object URL of the image that was shown, and issues
\* startCamera only after all of that.
C7_RetakeClearsBeforeRestart ==
  last.op = "Retake" =>
    /\ captureError = NoCaptureError
    /\ uploadError = Null
    /\ capturedImage = 0
    /\ liveUrls = {}
    /\ calls[Len(calls)].fn = "startCamera"
    /\ Before(calls, "revokeObjectURL", "startCamera")
    /\ {"setCaptureError", "setUploadError", "setCapturedImage"} \subseteq Fns(calls)

C7_Witness ==
  /\ last.op = "Retake"
  /\ "revokeObjectURL" \in Fns(calls)
  /\ camPending

\* C8: processOCRDocument is called at most once per attempt and only for an
\* attempt that captured a frame and whose processDocument call returned
\* exactly "CLEAR IMAGE"; a retake calls neither API.
C8_OcrOnlyAfterAcceptance ==
  /\ \A t \in Attempts :
       /\ tasks[t].nOcr <= 1
       /\ tasks[t].nDoc <= tasks[t].nCap
       /\ tasks[t].nOcr >= 1 =>
            (tasks[t].resp = ClearImage /\ tasks[t].nDoc = 1 /\ tasks[t].nCap = 1)
  /\ last.op = "Retake" =>
       Fns(calls) \cap {"processDocument", "processOCRDocument"} = {}

C8_Witness ==
  \E t, u \in Attempts :
    /\ Rejected(t) /\ tasks[t].pc = "done"
    /\ tasks[u].nOcr = 1

C10_LateResolutionIgnored ==
  [][life = "unmounted" =>
       Fns(calls') \cap {"onNext", "onError", "startCamera", "stopCamera",
                         "processOCRDocument"} = {}]_vars

\* a failure is on record in the mounted screen: the camera hook's error, or
\* the error of a rejected or failed upload
FailureShown ==
  /\ life = "mounted"
  /\ (error # Null \/ captureError # NoCaptureError \/ uploadError # Null)

\* C11: whenever a failure has occurred (device error, validation rejection,
\* network error) the mounted screen shows its message together with at least
\* one enabled recovery action (retry/back of the error page, or capture).
C11_FailureHasRecoveryAction ==
  FailureShown => (ErrorPageShown \/ CaptureEnabled)

\* C12: the only object URL that has been created and not revoked is that of
\* the current image, and when an image becomes current every earlier URL has
\* already been revoked.
C12_OnlyCurrentUrlLive ==
  /\ [](liveUrls \subseteq ({capturedImage} \ {0}))
  /\ [][(capturedImage' # capturedImage /\ capturedImage' # 0) => liveUrls = {}]_vars

C12_Witness ==
  /\ capturedImage = 2
  /\ liveUrls = {2}
  /\ tasks[1].nCap = 1

\* C15: after a retake the capture action stays disabled until the camera
\* reports that streaming has resumed, and capture is enabled only while
\* isStreaming holds and neither a capture nor an upload is outstanding.
C15_CaptureDisabledUntilStreaming ==
  /\ (last.op = "Retake" /\ camPending) => ~CaptureEnabled
  /\ CaptureEnabled =>
       /\ isStreaming /\ ~isCapturing /\ ~isUploading
       /\ \A t \in Attempts : ~InFlight(t)

C17_StartOnlyWhenReleased ==
  [][("startCamera" \in Fns(calls')) => (~stream /\ ~camPending)]_vars

Count(s, f) == Cardinality({i \in DOMAIN s : s[i].fn = f})

\* the upload of attempt t ended in a rejection or a thrown error
Failed(t) == Rejected(t) \/ tasks[t].resp = "<threw>" \/ tasks[t].ocr = "threw"

\* C18: with an onError callback provided, every failed upload attempt invokes
\* it exactly once, with the message of the CaptureError put on display; an
\* attempt never invokes both onNext and onError, and without the callback
\* nothing is reported.
C18_OnErrorOncePerFailure ==
  /\ \A t \in Attempts :
       /\ tasks[t].nNext + tasks[t].nErr <= 1
       /\ (tasks[t].pc = "done" /\ Failed(t)) =>
            (tasks[t].nNext = 0 /\ tasks[t].nErr = (IF hasOnError THEN 1 ELSE 0))
       /\ tasks[t].nErr >= 1 => (hasOnError /\ Failed(t))
  /\ "onError" \in Fns(calls) =>
       /\ Count(calls, "onError") = 1
       /\ life = "mounted" =>
            calls[FirstIdx(calls, "onError", 1)].arg = captureError.message

C18_Witness ==
  /\ hasOnError /\ life = "mounted"
  /\ last.op = "OcrThrows"
  /\ "onError" \in Fns(calls)
  /\ tasks[last.t].nErr = 1 /\ tasks[last.t].nNext = 0

\* C19: an attempt whose captureImage yields null changes nothing but the busy
\* flag (capturedImage, captureError and uploadError keep their values, no
\* onCapture, no API call); an attempt that yields a frame invokes onCapture
\* exactly once, with that image, before processDocument is called.
C19_NullFrameHasNoEffect ==
  /\ [](last.op = "CaptureImageNull" =>
          /\ tasks[last.t].nCap = 0 /\ tasks[last.t].nDoc = 0 /\ tasks[last.t].nOcr = 0
          /\ Fns(calls) \subseteq {"setIsCapturing"})
  /\ [](last.op = "CaptureImageFrame" =>
          /\ Count(calls, "onCapture") = 1
          /\ tasks[last.t].nCap = 1
          /\ calls[FirstIdx(calls, "onCapture", 1)].arg = last.t
          /\ Before(calls, "onCapture", "processDocument"))
  /\ [][last'.op \in {"handleCapture", "CaptureImageNull"} =>
          /\ capturedImage' = capturedImage
          /\ captureError' = captureError
          /\ uploadError' = uploadError]_vars

C19_Witness ==
  /\ last.op = "CaptureImageNull"
  /\ life = "mounted"
  /\ ~isCapturing
  /\ \E t \in Attempts : tasks[t].nCap = 1 /\ tasks[t].nDoc = 1

\* C13: the list built by CountrySelection holds every country_code of the
\* table exactly once, each with a name the table gives for it, and is in
\* ascending collation order of the names.
C13_ListUniqueAndSorted ==
  cLife # "init" =>
    /\ {countries[i][1] : i \in DOMAIN countries} =
         {metadata[r].country_code : r \in DOMAIN metadata}
    /\ \A i, j \in DOMAIN countries : i # j => countries[i][1] # countries[j][1]
    /\ \A i \in DOMAIN countries : \E r \in DOMAIN metadata :
         metadata[r] = [country |-> countries[i][2], country_code |-> countries[i][1]]
    /\ \A i, j \in DOMAIN countries :
         i < j => LocaleRank(countries[i][2]) <= LocaleRank(countries[j][2])

C13_Witness ==
  /\ cLife = "mounted"
  /\ Len(metadata) = 3
  /\ countries = << <<"BR", "austria">>, <<"AT", "Brazil">> >>

\* timers pending for change event k
Pending(k) == Cardinality({i \in DOMAIN timers : timers[i] = k})

\* C14: every change event that selects a country first reports the code
\* through onSelectCountryCode and schedules onNext with the fixed delay; at
\* any time that selection has exactly one navigation, pending or done, never
\* two, also when a later selection is made before the timer fires, and the
\* pending navigation is eventually done.
C14_SelectionNavigatesOnce ==
  /\ [](\A k \in 1..MaxSelections :
          IF k <= Len(reported) /\ reported[k] # ""
          THEN navs[k] + Pending(k) = 1
          ELSE navs[k] = 0 /\ Pending(k) = 0)
  /\ []((last.op = "handleChange" /\ last.arg # "") =>
          /\ calls[1] = Call("onSelectCountryCode", last.arg)
          /\ reported[last.t] = last.arg
          /\ Before(calls, "onSelectCountryCode", "setTimeout")
          /\ calls[FirstIdx(calls, "setTimeout", 1)].arg = 100
          /\ "onNext" \notin Fns(calls))
  /\ \A k \in 1..MaxSelections :
       (k <= Len(reported) /\ reported[k] # "") ~> (navs[k] = 1)

C14_Witness ==
  /\ Len(reported) = 2
  /\ timers = <<1, 2>>
  /\ reported[1] # reported[2]

====
